---- MODULE Spec2Model ----
(***************************************************************************)
(* flashbots-failed-tx (src/main.go): the live-mode reconciler (watch),    *)
(* the per-block detector (checkBlock), the rolling history of failed      *)
(* zero-gas transactions (FailedTxHistory) with its HTTP handler, and the  *)
(* historical range scan (checkBlockRange).                                *)
(*                                                                         *)
(* The node, the block fetchers and the Flashbots API are the environment: *)
(* their results are the inputs the actions draw with \E.                  *)
(***************************************************************************)
EXTENDS Naturals, Sequences, FiniteSets

(***************************************************************************)
(* Bounds of the model.                                                    *)
(***************************************************************************)
\* head events delivered by the subscription before the model stops feeding
MaxHeads == 2
\* longest block, in transactions
MaxTxs == 2
\* GET /failedTx requests served
MaxRequests == 2
\* longest range of heights checkBlockRange is called with
MaxRange == 2

(***************************************************************************)
(* Program constants.                                                      *)
(***************************************************************************)
\* len(FailedTxHistory) == 100, make([]FailedTx, 0, 100)
HistoryCap == 100
\* make(chan *blockswithtx.BlockWithTxReceipts, 100)
ChanCap == 100
\* the last argument of GetBlocksWithTxReceipts
Concurrency == 5

(***************************************************************************)
(* Transactions, as checkBlock reads them: whether b.TxReceipts holds a    *)
(* receipt, whether tx.GasPrice() is zero, whether len(tx.Data()) > 0, the *)
(* receipt's Status, and tx.To(), which is nil for a contract creation.    *)
(***************************************************************************)
Tx(receipt, zeroGas, data, status, to) ==
    [receipt |-> receipt, zeroGas |-> zeroGas, data |-> data,
     status |-> status, to |-> to]

TxFailed        == Tx(TRUE,  TRUE,  TRUE,  0, "addr")
TxFailedCreate  == Tx(TRUE,  TRUE,  TRUE,  0, "nil")
TxSuccess       == Tx(TRUE,  TRUE,  TRUE,  1, "addr")
TxNoReceipt     == Tx(FALSE, TRUE,  TRUE,  0, "addr")
TxPaidGas       == Tx(TRUE,  FALSE, TRUE,  0, "addr")
TxNoData        == Tx(TRUE,  TRUE,  FALSE, 0, "addr")

TxKinds == {TxFailed, TxFailedCreate, TxSuccess, TxNoReceipt, TxPaidGas, TxNoData}

TxLists == UNION {[1..n -> TxKinds] : n \in 0..MaxTxs}

\* the blocks the live-mode specification feeds to the reconciler: for the
\* loop of watch a block matters by whether it yields records, by whether a
\* bundle query can fail after a record of the same block was appended, and
\* by whether checkBlock can fault on it
WatchTxLists == {<<TxSuccess>>, <<TxFailed>>, <<TxFailed, TxFailed>>, <<TxFailedCreate>>}

\* A fetched block: id tells two fetches apart (it makes the transaction
\* hashes of two blocks differ), height is b.Block.Number().
Block(id, height, txs) == [id |-> id, height |-> height, txs |-> txs]

TxHash(b, i) == <<b.id, i>>

NoBlock == Block(0, 0, <<>>)

(***************************************************************************)
(* FailedTxHistory is a Go slice: a header (array, offset of the first     *)
(* element, len, cap) over a backing array.  heap[a] is backing array a:   *)
(* its capacity and the slots written so far (slots are written in order,  *)
(* the others hold the zero value the allocator left there).               *)
(***************************************************************************)
ZeroFailedTx == [Hash |-> <<0, 0>>, From |-> "", To |-> "", Block |-> 0, IsFlashbots |-> FALSE]

OutOfBounds == [Hash |-> <<0, 0>>, From |-> "?", To |-> "?", Block |-> 0, IsFlashbots |-> FALSE]

ReadSlot(hp, a, i) ==
    IF i > hp[a].cap THEN OutOfBounds
    ELSE IF i > Len(hp[a].elems) THEN ZeroFailedTx
    ELSE hp[a].elems[i]

\* the elements a slice header (array a, offset off, length n) denotes
SliceView(hp, a, off, n) == [i \in 1..n |-> ReadSlot(hp, a, off + i)]

HistoryView(h, hp) == SliceView(hp, h.arr, h.off, h.len)

\* FailedTxHistory[1:]
SliceFrom1(h) == [h EXCEPT !.off = @ + 1, !.len = @ - 1, !.cap = @ - 1]

\* growslice: capacities below the doubling threshold double
GrowCap(c) == 2 * c

VARIABLES
    halted,           \* "no", or how the process ended: "fatal" (log.Fatal), "panic", "exit"
    FailedTxHistory,  \* the slice header of the global
    heap,             \* backing arrays
    BlockBacklog,     \* map height -> block
    cb,               \* the running checkBlock call
    w,                \* the watch loop
    hd,               \* failedTxHistoryHandler, serving one request at a time
    r,                \* checkBlockRange: caller, fetch workers, consumer goroutine
    log               \* history variables: what was appended, processed, removed

vars == <<halted, FailedTxHistory, heap, BlockBacklog, cb, w, hd, r, log>>

CbIdle == [pc |-> "idle", block |-> NoBlock, idx |-> 0, rec |-> ZeroFailedTx,
           lenDone |-> FALSE, elemDone |-> FALSE, appended |-> 0, queried |-> {},
           answer |-> "none"]

\* counting history variables (a key that is absent counts as 0)
Count(f, k) == IF k \in DOMAIN f THEN f[k] ELSE 0

Bump(f, k) == [x \in DOMAIN f \cup {k} |-> Count(f, x) + (IF x = k THEN 1 ELSE 0)]

LogEmpty == [appended |-> <<>>, inserts |-> <<>>, removals |-> <<>>, checks |-> <<>>]

(***************************************************************************)
(* checkBlock(b)                                                           *)
(***************************************************************************)
\* the call checkBlock(b), at its first transaction
StartCheck(b) == [CbIdle EXCEPT !.pc = "scan", !.block = b, !.idx = 1]

\* TxOutcome without the test of line 158
TxOutcomeAnyStatus(tx) ==
    IF ~tx.receipt THEN "skip"
    ELSE IF ~(tx.zeroGas /\ tx.data) THEN "skip"
    ELSE "failed"

\* lines 150-160: what the loop body does with a transaction
TxOutcome(tx) ==
    IF ~tx.receipt THEN "skip"
    ELSE IF ~(tx.zeroGas /\ tx.data) THEN "skip"
    ELSE IF tx.status = 1 THEN "success"
    ELSE "failed"

\* lines 168-174: the FailedTx literal
NewFailedTx(b, i, isFlashbotsTx) ==
    [Hash |-> TxHash(b, i), From |-> "sender", To |-> b.txs[i].to,
     Block |-> b.height, IsFlashbots |-> isFlashbotsTx]

\* AtCapacity, one too late
AtCapacityLate(h) == h.len = HistoryCap + 1

\* line 175
AtCapacity(h) == h.len = HistoryCap

\* MapDelete emptying the map
MapDeleteAll(m, k) == <<>>

\* line 190: delete(BlockBacklog, height)
MapDelete(m, k) == [x \in DOMAIN m \ {k} |-> m[x]]

\* line 125: BlockBacklog[height] = b
MapPut(m, k, v) == [x \in DOMAIN m \cup {k} |-> IF x = k THEN v ELSE m[x]]

\* One iteration of the loop over b.Block.Transactions(), up to the point
\* where the record is built.  bundleAnswers is what IsFlashbotsTx may return.
CheckTx(bundleAnswers) ==
    /\ halted = "no"
    /\ cb.pc = "scan"
    /\ cb.idx <= Len(cb.block.txs)
    /\ LET tx == cb.block.txs[cb.idx] IN
       IF TxOutcome(tx) # "failed"
       THEN /\ cb' = [cb EXCEPT !.idx = @ + 1]
            /\ UNCHANGED halted
       ELSE \E res \in bundleAnswers :
              LET asked == [cb EXCEPT !.queried = @ \cup {cb.idx}, !.answer = res] IN
              IF res = "error"
              THEN \* log.Println; return
                   /\ cb' = [asked EXCEPT !.pc = "done"]
                   /\ UNCHANGED halted
              ELSE IF tx.to = "nil"
              THEN \* tx.To().String() on a nil *common.Address
                   /\ cb' = asked
                   /\ halted' = "panic"
              ELSE /\ cb' = [asked EXCEPT !.pc = "evict",
                                          !.rec = NewFailedTx(cb.block, cb.idx, res = "true")]
                   /\ UNCHANGED halted
    /\ UNCHANGED <<FailedTxHistory, heap, BlockBacklog, w, hd, r, log>>

\* lines 175-177
EvictOldest ==
    /\ halted = "no"
    /\ cb.pc = "evict"
    /\ FailedTxHistory' = IF AtCapacity(FailedTxHistory)
                          THEN SliceFrom1(FailedTxHistory) ELSE FailedTxHistory
    /\ cb' = [cb EXCEPT !.pc = "append"]
    /\ UNCHANGED <<halted, heap, BlockBacklog, w, hd, r, log>>

\* line 178, append: a full backing array is replaced by a larger copy
AppendGrow ==
    /\ halted = "no"
    /\ cb.pc = "append"
    /\ IF FailedTxHistory.len + 1 > FailedTxHistory.cap
       THEN /\ heap' = Append(heap, [cap |-> GrowCap(FailedTxHistory.cap),
                                     elems |-> HistoryView(FailedTxHistory, heap)])
            /\ FailedTxHistory' = [arr |-> Len(heap) + 1, off |-> 0,
                                   len |-> FailedTxHistory.len,
                                   cap |-> GrowCap(FailedTxHistory.cap)]
       ELSE UNCHANGED <<heap, FailedTxHistory>>
    /\ cb' = [cb EXCEPT !.pc = "write", !.lenDone = FALSE, !.elemDone = FALSE]
    /\ UNCHANGED <<halted, BlockBacklog, w, hd, r, log>>

\* the append is complete once the length and the element are both written
AfterWrite(c) ==
    IF c.lenDone /\ c.elemDone
    THEN [c EXCEPT !.pc = "scan", !.idx = @ + 1, !.appended = @ + 1]
    ELSE c

\* AppendLen waiting for the handler to be between requests
AppendLenWaits ==
    /\ halted = "no"
    /\ cb.pc = "write"
    /\ ~cb.lenDone
    /\ hd.pc = "idle"
    /\ FailedTxHistory' = [FailedTxHistory EXCEPT !.len = @ + 1]
    /\ cb' = AfterWrite([cb EXCEPT !.lenDone = TRUE])
    /\ UNCHANGED <<halted, heap, BlockBacklog, w, hd, r, log>>

\* line 178, append: the new length is written to the slice header
AppendLen ==
    /\ halted = "no"
    /\ cb.pc = "write"
    /\ ~cb.lenDone
    /\ FailedTxHistory' = [FailedTxHistory EXCEPT !.len = @ + 1]
    /\ cb' = AfterWrite([cb EXCEPT !.lenDone = TRUE])
    /\ UNCHANGED <<halted, heap, BlockBacklog, w, hd, r, log>>

\* the slot the element of the running append goes to
AppendSlot == FailedTxHistory.off + FailedTxHistory.len + (IF cb.lenDone THEN 0 ELSE 1)

StoreSlot(elems, i, rec) ==
    IF i = Len(elems) + 1 THEN Append(elems, rec) ELSE [elems EXCEPT ![i] = rec]

\* line 178, append: the element is written to its slot.  The two writes of
\* an append are not ordered for another thread, so either may come first.
AppendStore ==
    /\ halted = "no"
    /\ cb.pc = "write"
    /\ ~cb.elemDone
    /\ heap' = [heap EXCEPT ![FailedTxHistory.arr].elems = StoreSlot(@, AppendSlot, cb.rec)]
    /\ cb' = AfterWrite([cb EXCEPT !.elemDone = TRUE])
    /\ log' = [log EXCEPT !.appended = Append(@, cb.rec)]
    /\ UNCHANGED <<halted, FailedTxHistory, BlockBacklog, w, hd, r>>

\* line 190, after the last transaction
CheckDelete ==
    /\ halted = "no"
    /\ cb.pc = "scan"
    /\ cb.idx > Len(cb.block.txs)
    /\ BlockBacklog' = MapDelete(BlockBacklog, cb.block.height)
    /\ log' = IF cb.block.height \in DOMAIN BlockBacklog
              THEN [log EXCEPT !.removals = Bump(@, cb.block.height)] ELSE log
    /\ cb' = [cb EXCEPT !.pc = "done"]
    /\ UNCHANGED <<halted, FailedTxHistory, heap, w, hd, r>>

checkBlock(bundleAnswers) ==
    \/ CheckTx(bundleAnswers)
    \/ EvictOldest
    \/ AppendGrow
    \/ AppendLen
    \/ AppendStore
    \/ CheckDelete

(***************************************************************************)
(* watch(client): the loop of lines 112-141                                *)
(***************************************************************************)
WIdle == [pc |-> "off", heads |-> 0, header |-> 0, queried |-> FALSE,
          ok |-> FALSE, latest |-> 0, iter |-> {}, cur |-> 0]

\* Finalized without the comparison
FinalizedAlways(height, latestBlockNumber) == TRUE

\* line 136
Finalized(height, latestBlockNumber) == height <= latestBlockNumber

\* lines 114-115: case err := <-sub.Err(): log.Fatal(err)
SubscriptionError ==
    /\ halted = "no"
    /\ w.pc = "select"
    /\ halted' = "fatal"
    /\ UNCHANGED <<FailedTxHistory, heap, BlockBacklog, cb, w, hd, r, log>>

\* header.Number of the next head: it extends the chain by one block, or it
\* replaces the tip (a reorganisation of depth one)
NextHeights(tip) == {tip, tip + 1} \ {0}

\* lines 116-125: a header arrives, its block is fetched (utils.Perror ends
\* the process on a fetch error) and put in the backlog under its height
NewHead(txLists) ==
    /\ halted = "no"
    /\ w.pc = "select"
    /\ w.heads < MaxHeads
    /\ \/ /\ halted' = "fatal"
          /\ UNCHANGED <<BlockBacklog, w, log>>
       \/ \E h \in NextHeights(w.header), txs \in txLists :
            /\ BlockBacklog' = MapPut(BlockBacklog, h, Block(w.heads + 1, h, txs))
            /\ w' = [w EXCEPT !.pc = "query", !.heads = @ + 1, !.header = h,
                              !.queried = FALSE, !.ok = FALSE, !.iter = {}, !.cur = 0]
            /\ log' = [log EXCEPT !.inserts = Bump(@, h)]
            /\ UNCHANGED halted
    /\ UNCHANGED <<FailedTxHistory, heap, cb, hd, r>>

\* GetFlashbotsBlock with the error treated as utils.Perror treats one
GetFlashbotsBlockFatal(answers) ==
    /\ halted = "no"
    /\ w.pc = "query"
    /\ \E res \in answers :
         IF res.err
         THEN /\ halted' = "fatal"
              /\ UNCHANGED w
         ELSE /\ w' = [w EXCEPT !.pc = "sweep", !.queried = TRUE, !.ok = TRUE,
                                !.latest = res.latest, !.iter = DOMAIN BlockBacklog]
              /\ UNCHANGED halted
    /\ UNCHANGED <<FailedTxHistory, heap, BlockBacklog, cb, hd, r, log>>

\* lines 128-132: GetFlashbotsBlock; on an error the cycle ends (continue),
\* else the range over the backlog starts
GetFlashbotsBlock(answers) ==
    /\ halted = "no"
    /\ w.pc = "query"
    /\ \E res \in answers :
         IF res.err
         THEN w' = [w EXCEPT !.pc = "select", !.queried = TRUE, !.ok = FALSE]
         ELSE w' = [w EXCEPT !.pc = "sweep", !.queried = TRUE, !.ok = TRUE,
                             !.latest = res.latest, !.iter = DOMAIN BlockBacklog]
    /\ UNCHANGED <<halted, FailedTxHistory, heap, BlockBacklog, cb, hd, r, log>>

\* lines 135-137: the range yields the keys in no fixed order; a finalized
\* height's block goes to checkBlock
SweepNext ==
    /\ halted = "no"
    /\ w.pc = "sweep"
    /\ \E h \in w.iter :
         IF Finalized(h, w.latest)
         THEN /\ w' = [w EXCEPT !.pc = "call", !.iter = @ \ {h}, !.cur = h]
              /\ cb' = StartCheck(BlockBacklog[h])
              /\ log' = [log EXCEPT !.checks = Bump(@, BlockBacklog[h].id)]
         ELSE /\ w' = [w EXCEPT !.iter = @ \ {h}, !.cur = h]
              /\ UNCHANGED <<cb, log>>
    /\ UNCHANGED <<halted, FailedTxHistory, heap, BlockBacklog, hd, r>>

\* SweepReturn leaving the range when checkBlock returned on a query error
SweepReturnAbort ==
    /\ halted = "no"
    /\ w.pc = "call"
    /\ cb.pc = "done"
    /\ cb' = CbIdle
    /\ w' = [w EXCEPT !.pc = "sweep",
                      !.iter = IF cb.answer = "error" THEN {} ELSE @]
    /\ UNCHANGED <<halted, FailedTxHistory, heap, BlockBacklog, hd, r, log>>

\* checkBlock has returned to the loop of line 135
SweepReturn ==
    /\ halted = "no"
    /\ w.pc = "call"
    /\ cb.pc = "done"
    /\ cb' = CbIdle
    /\ w' = [w EXCEPT !.pc = "sweep"]
    /\ UNCHANGED <<halted, FailedTxHistory, heap, BlockBacklog, hd, r, log>>

\* the range of line 135 is exhausted: back to the select
SweepEnd ==
    /\ halted = "no"
    /\ w.pc = "sweep"
    /\ w.iter = {}
    /\ w' = [w EXCEPT !.pc = "select"]
    /\ UNCHANGED <<halted, FailedTxHistory, heap, BlockBacklog, cb, hd, r, log>>

\* (isFlashbotsTx, err) of IsFlashbotsTx
BundleAnswers == {"true", "false", "error"}

\* the answers the live-mode specification draws: the loop of watch does not
\* depend on the value of isFlashbotsTx, only on whether the query failed
WatchBundleAnswers == {"true", "error"}

\* (flashbotsResponse, err) of GetFlashbotsBlock
FlashbotsAnswers ==
    {[err |-> TRUE, latest |-> 0]} \cup {[err |-> FALSE, latest |-> n] : n \in 0..MaxHeads}

watch ==
    \/ SubscriptionError
    \/ NewHead(WatchTxLists)
    \/ GetFlashbotsBlock(FlashbotsAnswers)
    \/ SweepNext
    \/ SweepReturn
    \/ SweepEnd
    \/ checkBlock(WatchBundleAnswers)

(***************************************************************************)
(* failedTxHistoryHandler, on the web server's goroutine (lines 107-110,   *)
(* 193-196).  Encode(FailedTxHistory) copies the slice header, one word at *)
(* a time and under no lock, and then serializes the elements the copy     *)
(* denotes.                                                                *)
(***************************************************************************)
HdIdle == [pc |-> "idle", arr |-> 0, off |-> 0, len |-> 0,
           ptrRead |-> FALSE, lenRead |-> FALSE, served |-> 0]

\* both words of the header are copied: the encoding can start
AfterRead(h) == IF h.ptrRead /\ h.lenRead THEN [h EXCEPT !.pc = "encode"] ELSE h

\* GET /failedTx arrives
HandlerRequest ==
    /\ halted = "no"
    /\ hd.pc = "idle"
    /\ hd.served < MaxRequests
    /\ hd' = [hd EXCEPT !.pc = "read", !.ptrRead = FALSE, !.lenRead = FALSE]
    /\ UNCHANGED <<halted, FailedTxHistory, heap, BlockBacklog, cb, w, r, log>>

\* line 195: the data pointer of FailedTxHistory is read
HandlerReadPtr ==
    /\ halted = "no"
    /\ hd.pc = "read"
    /\ ~hd.ptrRead
    /\ hd' = AfterRead([hd EXCEPT !.arr = FailedTxHistory.arr, !.off = FailedTxHistory.off,
                                  !.ptrRead = TRUE])
    /\ UNCHANGED <<halted, FailedTxHistory, heap, BlockBacklog, cb, w, r, log>>

\* line 195: the length of FailedTxHistory is read
HandlerReadLen ==
    /\ halted = "no"
    /\ hd.pc = "read"
    /\ ~hd.lenRead
    /\ hd' = AfterRead([hd EXCEPT !.len = FailedTxHistory.len, !.lenRead = TRUE])
    /\ UNCHANGED <<halted, FailedTxHistory, heap, BlockBacklog, cb, w, r, log>>

\* what Encode writes to the response: the elements the copied header denotes
Serialized == SliceView(heap, hd.arr, hd.off, hd.len)

\* line 195: the JSON array is written and the request ends
HandlerEncode ==
    /\ halted = "no"
    /\ hd.pc = "encode"
    /\ hd' = [hd EXCEPT !.pc = "idle", !.served = @ + 1]
    /\ UNCHANGED <<halted, FailedTxHistory, heap, BlockBacklog, cb, w, r, log>>

failedTxHistoryHandler ==
    \/ HandlerRequest
    \/ HandlerReadPtr
    \/ HandlerReadLen
    \/ HandlerEncode

(***************************************************************************)
(* checkBlockRange(client, startHeight, endHeight)                         *)
(*                                                                         *)
(* r.pc is the caller: "fetch" (in GetBlocksWithTxReceipts, line 84),      *)
(* "close" (line 87), "lock" (line 88), "report" (line 92), "returned".    *)
(* r.g is the goroutine of lines 74-81: "start" (before lock.Lock()),      *)
(* "recv" (at the range over blockChan), "call" (in checkBlock), "exit".   *)
(* The fetch workers deliver every height of the range once, in any order, *)
(* at most Concurrency of them holding a fetched block at a time.          *)
(***************************************************************************)
RIdle == [pc |-> "off", g |-> "off", start |-> 0, end |-> 0, toFetch |-> {},
          fetched |-> {}, blockChan |-> <<>>, closed |-> FALSE, lock |-> "free",
          numTx |-> 0, delivered |-> 0, reported |-> <<>>]

\* a worker takes the next height off the pool and fetches its block
WorkerFetch(txLists) ==
    /\ halted = "no"
    /\ r.pc = "fetch"
    /\ Cardinality(r.fetched) < Concurrency
    /\ \E h \in r.toFetch, txs \in txLists :
         r' = [r EXCEPT !.toFetch = @ \ {h}, !.fetched = @ \cup {Block(h, h, txs)}]
    /\ UNCHANGED <<halted, FailedTxHistory, heap, BlockBacklog, cb, w, hd, log>>

\* blockChan <- res: blocks while the channel holds ChanCap blocks
WorkerSend ==
    /\ halted = "no"
    /\ r.pc = "fetch"
    /\ Len(r.blockChan) < ChanCap
    /\ \E b \in r.fetched :
         r' = [r EXCEPT !.fetched = @ \ {b}, !.blockChan = Append(@, b),
                        !.delivered = @ + Len(b.txs)]
    /\ UNCHANGED <<halted, FailedTxHistory, heap, BlockBacklog, cb, w, hd, log>>

\* line 84 returns: every height has been delivered to blockChan
FetchReturn ==
    /\ halted = "no"
    /\ r.pc = "fetch"
    /\ r.toFetch = {}
    /\ r.fetched = {}
    /\ r' = [r EXCEPT !.pc = "close"]
    /\ UNCHANGED <<halted, FailedTxHistory, heap, BlockBacklog, cb, w, hd, log>>

\* line 87
CloseChan ==
    /\ halted = "no"
    /\ r.pc = "close"
    /\ r' = [r EXCEPT !.pc = "lock", !.closed = TRUE]
    /\ UNCHANGED <<halted, FailedTxHistory, heap, BlockBacklog, cb, w, hd, log>>

\* CallerLock not waiting for the mutex to be free
CallerLockNoWait ==
    /\ halted = "no"
    /\ r.pc = "lock"
    /\ r' = [r EXCEPT !.pc = "report", !.lock = "caller"]
    /\ UNCHANGED <<halted, FailedTxHistory, heap, BlockBacklog, cb, w, hd, log>>

\* line 88: lock.Lock() by the caller
CallerLock ==
    /\ halted = "no"
    /\ r.pc = "lock"
    /\ r.lock = "free"
    /\ r' = [r EXCEPT !.pc = "report", !.lock = "caller"]
    /\ UNCHANGED <<halted, FailedTxHistory, heap, BlockBacklog, cb, w, hd, log>>

\* lines 91-93: numTx is read and printed, checkBlockRange returns and main
\* with it, which ends the process
Report ==
    /\ halted = "no"
    /\ r.pc = "report"
    /\ r' = [r EXCEPT !.pc = "returned",
                      !.reported = <<(r.end + 1) - r.start, r.numTx>>]
    /\ halted' = "exit"
    /\ UNCHANGED <<FailedTxHistory, heap, BlockBacklog, cb, w, hd, log>>

\* line 75: lock.Lock() by the goroutine
ConsumerLock ==
    /\ halted = "no"
    /\ r.g = "start"
    /\ r.lock = "free"
    /\ r' = [r EXCEPT !.g = "recv", !.lock = "consumer"]
    /\ UNCHANGED <<halted, FailedTxHistory, heap, BlockBacklog, cb, w, hd, log>>

\* lines 77-78: a block is received and handed to checkBlock
ConsumerRecv ==
    /\ halted = "no"
    /\ r.g = "recv"
    /\ r.blockChan # <<>>
    /\ r' = [r EXCEPT !.g = "call", !.blockChan = Tail(@)]
    /\ cb' = StartCheck(Head(r.blockChan))
    /\ log' = [log EXCEPT !.checks = Bump(@, Head(r.blockChan).id)]
    /\ UNCHANGED <<halted, FailedTxHistory, heap, BlockBacklog, w, hd>>

\* line 79, after checkBlock has returned
ConsumerCount ==
    /\ halted = "no"
    /\ r.g = "call"
    /\ cb.pc = "done"
    /\ r' = [r EXCEPT !.g = "recv", !.numTx = @ + Len(cb.block.txs)]
    /\ cb' = CbIdle
    /\ UNCHANGED <<halted, FailedTxHistory, heap, BlockBacklog, w, hd, log>>

\* lines 77, 76: the range ends on the closed, empty channel; deferred Unlock
ConsumerExit ==
    /\ halted = "no"
    /\ r.g = "recv"
    /\ r.blockChan = <<>>
    /\ r.closed
    /\ r' = [r EXCEPT !.g = "exit", !.lock = "free"]
    /\ UNCHANGED <<halted, FailedTxHistory, heap, BlockBacklog, cb, w, hd, log>>

\* the blocks the batch-mode specification lets the workers fetch: they
\* differ in their number of transactions, in whether checkBlock appends a
\* record and in whether it can fault
RangeTxLists == {<<TxSuccess>>, <<TxFailed, TxSuccess>>, <<TxFailedCreate>>}

checkBlockRange ==
    \/ WorkerFetch(RangeTxLists)
    \/ WorkerSend
    \/ FetchReturn
    \/ CloseChan
    \/ CallerLock
    \/ Report
    \/ ConsumerLock
    \/ ConsumerRecv
    \/ ConsumerCount
    \/ ConsumerExit
    \/ checkBlock(BundleAnswers)

\* the empty slice of line 96
EmptyHistory == [arr |-> 1, off |-> 0, len |-> 0, cap |-> HistoryCap]

InitWatch ==
    /\ halted = "no"
    /\ FailedTxHistory = EmptyHistory
    /\ heap = <<[cap |-> HistoryCap, elems |-> <<>>]>>
    /\ BlockBacklog = <<>>
    /\ cb = CbIdle
    /\ w = [WIdle EXCEPT !.pc = "select"]
    /\ hd = HdIdle
    /\ r = RIdle
    /\ log = LogEmpty

SpecWatch == InitWatch /\ [][watch]_vars

(***************************************************************************)
(* checkBlock on every block of up to MaxTxs transactions: the state of    *)
(* watch when the first head has been fetched and GetFlashbotsBlock has    *)
(* answered, and from there the sweep of lines 135-139.                    *)
(***************************************************************************)
InitCheck ==
    /\ halted = "no"
    /\ FailedTxHistory = EmptyHistory
    /\ heap = <<[cap |-> HistoryCap, elems |-> <<>>]>>
    /\ \E txs \in TxLists : BlockBacklog = MapPut(<<>>, 1, Block(1, 1, txs))
    /\ cb = CbIdle
    /\ \E latest \in 0..1 :
         w = [WIdle EXCEPT !.pc = "sweep", !.heads = 1, !.header = 1, !.queried = TRUE,
                           !.ok = TRUE, !.latest = latest, !.iter = {1}]
    /\ hd = HdIdle
    /\ r = RIdle
    /\ log = [LogEmpty EXCEPT !.inserts = Bump(<<>>, 1)]

sweep ==
    \/ SweepNext
    \/ SweepReturn
    \/ SweepEnd
    \/ checkBlock(BundleAnswers)

SpecCheck == InitCheck /\ [][sweep]_vars

(***************************************************************************)
(* The history under load: watch with the web server, started from a       *)
(* history that earlier blocks have filled up to or near its capacity, on  *)
(* blocks that each yield records.                                         *)
(***************************************************************************)
\* the record the i-th failed transaction of earlier blocks left
EarlierFailedTx(i) ==
    [Hash |-> <<0, i>>, From |-> "sender", To |-> "addr", Block |-> 0, IsFlashbots |-> FALSE]

\* FailedTxHistory after n appends to the empty slice of line 96, n <= 100
Filled(n) == [i \in 1..n |-> EarlierFailedTx(i)]

InitHistory ==
    /\ halted = "no"
    /\ \E n \in {0, HistoryCap - 1, HistoryCap} :
         /\ FailedTxHistory = [EmptyHistory EXCEPT !.len = n]
         /\ heap = <<[cap |-> HistoryCap, elems |-> Filled(n)]>>
         /\ log = [LogEmpty EXCEPT !.appended = Filled(n)]
    /\ BlockBacklog = <<>>
    /\ cb = CbIdle
    /\ w = [WIdle EXCEPT !.pc = "select"]
    /\ hd = HdIdle
    /\ r = RIdle

HistoryTxLists == {<<TxFailed>>, <<TxFailed, TxFailed>>}

live ==
    \/ NewHead(HistoryTxLists)
    \/ GetFlashbotsBlock({[err |-> FALSE, latest |-> MaxHeads]})
    \/ SweepNext
    \/ SweepReturn
    \/ SweepEnd
    \/ checkBlock({"true"})
    \/ failedTxHistoryHandler

SpecHistory == InitHistory /\ [][live]_vars

(***************************************************************************)
(* Batch mode: main calls checkBlockRange on a range of 1..MaxRange        *)
(* heights; the state is the one after line 81, the goroutine started.     *)
(***************************************************************************)
FirstHeight == 100

InitRange ==
    /\ halted = "no"
    /\ FailedTxHistory = EmptyHistory
    /\ heap = <<[cap |-> HistoryCap, elems |-> <<>>]>>
    /\ BlockBacklog = <<>>
    /\ cb = CbIdle
    /\ w = WIdle
    /\ hd = HdIdle
    /\ \E n \in 1..MaxRange :
         r = [RIdle EXCEPT !.pc = "fetch", !.g = "start", !.start = FirstHeight,
                           !.end = (FirstHeight + n) - 1,
                           !.toFetch = FirstHeight..((FirstHeight + n) - 1)]
    /\ log = LogEmpty

SpecRange == InitRange /\ [][checkBlockRange]_vars

(***************************************************************************)
(* Properties                                                              *)
(***************************************************************************)
\* the last n elements of s
LastN(s, n) == IF Len(s) <= n THEN s ELSE SubSeq(s, (Len(s) - n) + 1, Len(s))

\* a transaction with a receipt, zero gas price, non-empty data, failed status
IsFailedZeroGas(tx) == tx.receipt /\ tx.zeroGas /\ tx.data /\ tx.status # 1

\* line 190 has just run in the current checkBlock call
JustDeleted == cb.pc = "done" /\ cb.idx > Len(cb.block.txs)

\* C1 as stated: a height is removed from BlockBacklog at most once, and a
\* removal happens only in a cycle whose GetFlashbotsBlock succeeded with
\* LatestBlockNumber >= the height.
C1_RemovedOnce ==
    /\ \A h \in DOMAIN log.removals : log.removals[h] <= 1
    /\ JustDeleted => (w.pc = "call" /\ w.ok /\ cb.block.height <= w.latest)

\* C1 amended: a height is removed at most once per insertion (a height that
\* a later head delivers again is inserted and removed again), and every
\* removal of a height h happens in a cycle whose GetFlashbotsBlock succeeded
\* with LatestBlockNumber >= h.
C1_RemovedOncePerInsertion ==
    [][\A h \in DOMAIN BlockBacklog :
          h \notin DOMAIN BlockBacklog' =>
             /\ w.pc = "call"
             /\ w.ok
             /\ h <= w.latest
             /\ Count(log'.removals, h) <= Count(log.inserts, h)]_vars

\* a height delivered twice has been removed twice
C1_Witness == \E h \in DOMAIN log.removals : log.removals[h] = 2

\* C2: at the end of a cycle whose GetFlashbotsBlock succeeded with value L,
\* BlockBacklog holds no height <= L.
C2_SweepClearsFinalized ==
    (w.pc = "select" /\ w.queried /\ w.ok) =>
        \A h \in DOMAIN BlockBacklog : h > w.latest

\* C3: the caller is past lock.Lock() of line 88 only when blockChan is
\* closed and empty and the goroutine has finished its last block.
C3_ReturnsAfterDrain ==
    r.pc \in {"report", "returned"} =>
        (r.closed /\ r.blockChan = <<>> /\ r.g = "exit")

\* the contents FailedTxHistory had after each completed append
CompletedAppends ==
    Len(log.appended) - (IF cb.pc = "write" /\ cb.elemDone THEN 1 ELSE 0)

CompletedContents ==
    {LastN(SubSeq(log.appended, 1, n), HistoryCap) : n \in 0..CompletedAppends}

\* C4: every snapshot the handler serializes equals the contents of
\* FailedTxHistory after some completed append (or the initial contents), and
\* has at most 100 entries.
C4_SnapshotConsistent ==
    hd.pc = "encode" =>
        (Serialized \in CompletedContents /\ Len(Serialized) <= HistoryCap)

\* C5: len(FailedTxHistory) never exceeds 100, and outside a running append
\* FailedTxHistory holds the last min(n, 100) of the n records appended so
\* far, in the order of their insertion.
C5_BoundedFifo ==
    /\ FailedTxHistory.len <= HistoryCap
    /\ cb.pc \notin {"append", "write"} =>
          HistoryView(FailedTxHistory, heap) = LastN(log.appended, HistoryCap)

\* an append at capacity has evicted the oldest record
C5_Witness ==
    /\ cb.pc = "scan"
    /\ Len(log.appended) > HistoryCap
    /\ FailedTxHistory.len = HistoryCap

\* C6: the step in which GetFlashbotsBlock fails changes neither BlockBacklog
\* nor FailedTxHistory, calls no checkBlock and leaves the process running at
\* the select; the next head that is fetched leads to GetFlashbotsBlock again.
C6_FailedQuerySkipsSweep ==
    [][/\ (w.pc = "query" /\ w'.pc # "sweep") =>
             /\ BlockBacklog' = BlockBacklog
             /\ FailedTxHistory' = FailedTxHistory
             /\ heap' = heap
             /\ cb' = cb
             /\ log' = log
             /\ halted' = "no"
             /\ w'.pc = "select"
       /\ (w.pc = "select" /\ w.queried /\ ~w.ok /\ w'.heads # w.heads) =>
             w'.pc = "query"]_vars

\* a second cycle starts its query after a cycle whose query failed left the
\* first block pending
C6_Witness ==
    /\ w.pc = "query"
    /\ w.heads = 2
    /\ Count(log.checks, 1) = 0
    /\ 1 \in DOMAIN BlockBacklog
    /\ BlockBacklog[1].id = 1
    /\ halted = "no"

\* C7: checkBlock on a block with exactly one failed zero-gas transaction,
\* its IsFlashbotsTx query answered, ends with exactly one record appended,
\* whose Block is the block's height and whose IsFlashbots is the answer.
C7_OneFailedOneRecord ==
    (/\ cb.pc = "done" \/ halted = "panic"
     /\ Cardinality({i \in DOMAIN cb.block.txs : IsFailedZeroGas(cb.block.txs[i])}) = 1
     /\ cb.answer \in {"true", "false"}) =>
        /\ cb.appended = 1
        /\ FailedTxHistory.len = 1
        /\ HistoryView(FailedTxHistory, heap)[1].Block = cb.block.height
        /\ HistoryView(FailedTxHistory, heap)[1].IsFlashbots = (cb.answer = "true")

\* C8: every record checkBlock appends, and every IsFlashbotsTx query it
\* issues, is for a transaction with a receipt, zero gas price, non-empty data
\* and failed status; none is for a transaction whose receipt says success.
C8_OnlyFailedRecorded ==
    cb.pc # "idle" =>
        /\ \A k \in 1..Len(log.appended) :
              IsFailedZeroGas(cb.block.txs[log.appended[k].Hash[2]])
        /\ \A i \in cb.queried : IsFailedZeroGas(cb.block.txs[i])

\* checkBlock has finished a block holding a successful zero-gas transaction
\* and a failed one, with one record appended
C8_Witness ==
    /\ cb.pc = "done"
    /\ \E i \in DOMAIN cb.block.txs : cb.block.txs[i] = TxSuccess /\ i \notin cb.queried
    /\ Len(log.appended) = 1

\* C9: when checkBlockRange returns, each height of the range has been
\* passed to checkBlock exactly once.
C9_EachHeightOnce ==
    r.pc = "returned" =>
        \A h \in r.start..r.end : Count(log.checks, h) = 1

\* C10: the counts checkBlockRange reports on return are the number of blocks
\* the goroutine has processed and the sum of their transaction counts.
C10_ReportedCounts ==
    r.pc = "returned" =>
        /\ r.reported[2] = r.delivered
        /\ r.reported[1] = Cardinality({h \in DOMAIN log.checks : log.checks[h] > 0})

\* C11: in a cycle whose GetFlashbotsBlock succeeded with value L, from the
\* answer to the end of the sweep, every height h > L in BlockBacklog stays
\* there with the same block, and no checkBlock call runs on it.
C11_UnfinalizedKept ==
    [][(w'.pc \in {"sweep", "call"} /\ w'.ok) =>
          \A h \in DOMAIN BlockBacklog :
             h > w'.latest =>
                /\ h \in DOMAIN BlockBacklog'
                /\ BlockBacklog'[h] = BlockBacklog[h]
                /\ cb'.pc # "idle" => cb'.block.height # h]_vars

\* a cycle with L = 1 has ended: the first block was checked, the second
\* head's block at height 2 was never checked and is still in the backlog
C11_Witness ==
    /\ w.pc = "select" /\ w.queried /\ w.ok /\ w.latest = 1
    /\ 2 \in DOMAIN BlockBacklog
    /\ BlockBacklog[2].id = 2
    /\ Count(log.checks, 1) >= 1
    /\ Count(log.checks, 2) = 0

\* C12: the step in which IsFlashbotsTx returns an error ends the checkBlock
\* call at that transaction: the records appended so far stay, nothing else
\* is appended or scanned.  The return that follows goes back to the range
\* over the backlog with the heights still to visit unchanged and the
\* process running.
C12_QueryFailureAbortsBlockOnly ==
    [][/\ (cb.pc = "scan" /\ cb'.answer = "error" /\ cb'.queried # cb.queried) =>
             /\ cb'.pc = "done"
             /\ cb'.idx = cb.idx
             /\ cb'.appended = cb.appended
             /\ log'.appended = log.appended
             /\ FailedTxHistory' = FailedTxHistory
             /\ heap' = heap
             /\ halted' = "no"
       /\ (cb.pc = "done" /\ cb.answer = "error" /\ cb' # cb) =>
             /\ cb' = CbIdle
             /\ w'.pc = "sweep"
             /\ w'.iter = w.iter
             /\ log'.appended = log.appended
             /\ FailedTxHistory' = FailedTxHistory
             /\ halted' = "no"]_vars

\* the query failed on the second transaction of a block whose first one was
\* recorded, and the sweep has another height still to visit
C12_Witness ==
    /\ cb.pc = "done" /\ cb.answer = "error"
    /\ cb.idx = 2 /\ cb.appended = 1
    /\ Len(log.appended) >= 1
    /\ w.pc = "call" /\ w.iter # {}

\* C13: no state has failedTxHistoryHandler reading FailedTxHistory (header
\* copy or serialization) while an append of checkBlock (lines 175-178) is
\* between its first and its last write.
C13_AppendSnapshotExclusive ==
    ~(hd.pc \in {"read", "encode"} /\ cb.pc \in {"append", "write"})

\* C14: checkBlock is called at most once on each block that was fetched, and
\* no record (Hash, Block) is appended to FailedTxHistory twice.
C14_CheckedOnce ==
    /\ \A id \in DOMAIN log.checks : log.checks[id] <= 1
    /\ \A i, j \in 1..Len(log.appended) :
          (log.appended[i].Hash = log.appended[j].Hash
             /\ log.appended[i].Block = log.appended[j].Block) => i = j

\* C15: a height that was removed from BlockBacklog is never in it again, and
\* a height is still in BlockBacklog at the end of a cycle only if the
\* cycle's GetFlashbotsBlock failed or reported a value below the height.
C15_PendingThenCleared ==
    /\ \A h \in DOMAIN log.removals :
          log.removals[h] >= 1 => h \notin DOMAIN BlockBacklog
    /\ \A h \in DOMAIN BlockBacklog :
          (w.pc = "select" /\ w.queried) => (~w.ok \/ w.latest < h)

\* C16: in checkBlockRange only the goroutine, holding the mutex, writes
\* numTx (line 79) and starts a checkBlock call (line 78), and the caller is
\* never at its read of numTx (lines 91-92) while the goroutine is inside
\* the loop of lines 77-80.
C16_ConsumerOwnsCounter ==
    [][/\ r'.numTx # r.numTx =>
             (r.g = "call" /\ r'.g = "recv" /\ r.lock = "consumer")
       /\ (cb.pc = "idle" /\ cb'.pc # "idle") =>
             (r.g = "recv" /\ r'.g = "call" /\ r.lock = "consumer")
       /\ r'.pc = "report" => r'.g \notin {"recv", "call"}]_vars

\* the caller is at its read of numTx after the goroutine has counted a
\* block's transactions and left its loop
C16_Witness == r.pc = "report" /\ r.g = "exit" /\ r.numTx > 0

\* C17: blockChan never holds more than 100 blocks, and checkBlockRange
\* stops only by returning: every state in which no step of the caller, of
\* a fetch worker or of the goroutine is possible is one reached by the
\* return of line 93.  (No step leads back to an earlier state, so a run
\* that cannot stop elsewhere ends with the return.)
C17_RangeReturns ==
    /\ Len(r.blockChan) <= ChanCap
    /\ (~ENABLED checkBlockRange) => r.pc = "returned"

\* C18: while the process runs, the next step of a request being served is
\* possible whatever the loop of watch is at, and the next step of the loop
\* of watch (past the select, where it waits for a head and for nothing
\* else) is possible whatever the handler is at.
C18_NoMutualBlocking ==
    halted = "no" =>
        /\ (hd.pc = "read" /\ ~hd.ptrRead) => ENABLED HandlerReadPtr
        /\ (hd.pc = "read" /\ ~hd.lenRead) => ENABLED HandlerReadLen
        /\ hd.pc = "encode" => ENABLED HandlerEncode
        /\ w.pc = "query" =>
              ENABLED GetFlashbotsBlock({[err |-> FALSE, latest |-> MaxHeads]})
        /\ w.pc = "sweep" => ENABLED (SweepNext \/ SweepEnd)
        /\ (w.pc = "call" /\ cb.pc = "done") => ENABLED SweepReturn
        /\ (w.pc = "call" /\ cb.pc # "done") => ENABLED checkBlock({"true"})

\* a request has its copy of the slice header and is serializing while the
\* loop of watch is inside an append of checkBlock
C18_Witness ==
    /\ halted = "no"
    /\ hd.pc = "encode"
    /\ w.pc = "call" /\ cb.pc = "write" /\ cb.elemDone /\ ~cb.lenDone

\* C19: the process stops only at the select of watch, by log.Fatal of lines
\* 114-118, with the loop and BlockBacklog as they were before the error;
\* once it has stopped, nothing is fetched, inserted or swept.
C19_RunsUntilSubscriptionError ==
    [][/\ halted' # "no" =>
             /\ halted' = "fatal"
             /\ w.pc = "select"
             /\ cb.pc = "idle"
             /\ w' = w
             /\ BlockBacklog' = BlockBacklog
       /\ halted # "no" => UNCHANGED vars]_vars

\* C20: no checkBlock call ends in a runtime fault, and a call that was not
\* cut short by a query error has appended one record for each transaction
\* with a receipt, zero gas price, data and failed status, recipient or not,
\* has scanned every transaction and has removed the block.
C20_NoRuntimeFault ==
    /\ halted # "panic"
    /\ (cb.pc = "done" /\ cb.answer # "error") =>
          /\ cb.idx = Len(cb.block.txs) + 1
          /\ cb.appended = Cardinality({i \in 1..Len(cb.block.txs) :
                                           IsFailedZeroGas(cb.block.txs[i])})
          /\ cb.block.height \notin DOMAIN BlockBacklog

====
